---------------------------- MODULE Spec2Model ----------------------------
(***************************************************************************)
(* A model of the email_address crate (src/src/lib.rs).                    *)
(*                                                                         *)
(* A Rust `char` is modelled by its Unicode scalar value (a natural        *)
(* number) and a `&str` / `String` by the sequence of its chars.  The      *)
(* crate measures strings with `str::len`, which counts UTF-8 bytes, so    *)
(* the model keeps the encoded width of every char (utf8_len).             *)
(*                                                                         *)
(* A `Result<(), Error>` is modelled by its tag: "Ok", the name of the     *)
(* Error variant, or "Panic" when the call aborts instead of returning.    *)
(* A `Result<EmailAddress, Error>` is a record [tag, local, domain].       *)
(***************************************************************************)
EXTENDS Naturals, Sequences, FiniteSets

(***************************************************************************)
(* Program constants (lib.rs 298-322).                                     *)
(***************************************************************************)
LOCAL_PART_MAX_LENGTH == 64
DOMAIN_MAX_LENGTH == 254
SUB_DOMAIN_MAX_LENGTH == 63

SP == 32
HTAB == 9
ESC == 92
AT == 64
DOT == 46
DQUOTE == 34
LBRACKET == 91
RBRACKET == 93
LT == 60
GT == 62
UTF8_START == 128

\* "mailto:"
MAILTO_URI_PREFIX == <<109, 97, 105, 108, 116, 111, 58>>

(***************************************************************************)
(* str primitives of the standard library, as the crate uses them.         *)
(***************************************************************************)
\* char::len_utf8: the number of bytes of the UTF-8 encoding of c.
utf8_len(c) ==
    IF c < 128 THEN 1 ELSE IF c < 2048 THEN 2 ELSE IF c < 65536 THEN 3 ELSE 4

\* str::len: the length of s in bytes, the sum of utf8_len over its chars
\* (one per char, and one more for each width a char exceeds).
len(s) ==
    Len(s) + Cardinality({i \in 1..Len(s) : utf8_len(s[i]) >= 2})
           + Cardinality({i \in 1..Len(s) : utf8_len(s[i]) >= 3})
           + Cardinality({i \in 1..Len(s) : utf8_len(s[i]) >= 4})

\* str::is_empty
is_empty(s) == Len(s) = 0

\* str::starts_with(char) / str::ends_with(char)
starts_with(s, c) == Len(s) > 0 /\ s[1] = c
ends_with(s, c) == Len(s) > 0 /\ s[Len(s)] = c

\* The byte range 1 .. len-1 of a slice expression &s[1..s.len() - 1] is
\* well formed only when 1 <= len - 1; otherwise the indexing panics.
slice_in_range(s) == len(s) >= 2

\* &s[1..s.len() - 1] where the first and the last char of s are one byte
\* wide: every char but the first and the last.
slice_inner(s) == SubSeq(s, 2, Len(s) - 1)

\* The positions of the char c in s.
positions(s, c) == {i \in 1..Len(s) : s[i] = c}

min_of(P) == CHOOSE i \in P : \A j \in P : i <= j
max_of(P) == CHOOSE i \in P : \A j \in P : j <= i

\* str::split(char): the pieces between the occurrences of c, left to
\* right; a string without c (the empty string too) is one piece.
RECURSIVE split(_, _)
split(s, c) ==
    IF positions(s, c) = {}
    THEN <<s>>
    ELSE LET i == min_of(positions(s, c))
         IN  <<SubSeq(s, 1, i - 1)>> \o split(SubSeq(s, i + 1, Len(s)), c)

\* rsplitn2 with the split made at the first c, as str::splitn(2, char)
\* would make it (the pieces kept in the order rsplitn yields them).
splitn2_first(s, c) ==
    IF positions(s, c) = {}
    THEN <<s>>
    ELSE LET i == min_of(positions(s, c))
         IN  <<SubSeq(s, i + 1, Len(s)), SubSeq(s, 1, i - 1)>>

\* str::rsplitn(2, char) collected: the pieces are yielded from the right,
\* so the first is the text after the last c and the second all before it.
rsplitn2(s, c) ==
    IF positions(s, c) = {}
    THEN <<s>>
    ELSE LET i == max_of(positions(s, c))
         IN  <<SubSeq(s, i + 1, Len(s)), SubSeq(s, 1, i - 1)>>

(***************************************************************************)
(* Character classes (lib.rs 574-658).                                     *)
(***************************************************************************)
is_uchar(c) == c >= UTF8_START

\* char::is_alphanumeric on the ASCII range; above it is_atext is decided
\* by its is_uchar disjunct.
is_ascii_alphanumeric(c) ==
    \/ (c >= 48 /\ c <= 57)
    \/ (c >= 65 /\ c <= 90)
    \/ (c >= 97 /\ c <= 122)

\* ! # $ % & ' * + - / = ? ^ _ ` { | } ~
is_atext(c) ==
    \/ is_ascii_alphanumeric(c)
    \/ c \in {33, 35, 36, 37, 38, 39, 42, 43, 45, 47, 61, 63, 94, 95, 96,
              123, 124, 125, 126}
    \/ is_uchar(c)

is_vchar(c) == c >= 33 /\ c <= 126

is_wsp(c) == c = SP \/ c = HTAB

is_qtext_char(c) ==
    c = 33 \/ (c >= 35 /\ c <= 91) \/ (c >= 93 /\ c <= 126) \/ is_uchar(c)

is_dtext_char(c) == (c >= 33 /\ c <= 90) \/ (c >= 94 /\ c <= 126)

(***************************************************************************)
(* Token recognizers (lib.rs 619-654).                                     *)
(***************************************************************************)
\* s.chars().all(is_atext) is the quantification over the chars of s.
is_atom(s) == ~is_empty(s) /\ \A i \in 1..Len(s) : is_atext(s[i])

is_dot_atom_text(s) ==
    LET parts == split(s, DOT)
    IN  \A k \in 1..Len(parts) : is_atom(parts[k])

\* The while-let loop of is_qcontent from char index i on.
RECURSIVE qcontent_from(_, _)
qcontent_from(s, i) ==
    IF i > Len(s) THEN TRUE
    ELSE IF s[i] = ESC
         THEN /\ i + 1 <= Len(s)
              /\ is_vchar(s[i + 1])
              /\ qcontent_from(s, i + 2)
         ELSE /\ (is_wsp(s[i]) \/ is_qtext_char(s[i]))
              /\ qcontent_from(s, i + 1)

is_qcontent(s) == qcontent_from(s, 1)

(***************************************************************************)
(* Local-part and domain validators (lib.rs 507-570).                      *)
(***************************************************************************)
parse_quoted_local_part(part) ==
    IF is_qcontent(part) THEN "Ok" ELSE "InvalidCharacter"

parse_unquoted_local_part(part) ==
    IF is_dot_atom_text(part) THEN "Ok" ELSE "InvalidCharacter"

parse_local_part(part) ==
    IF is_empty(part) THEN "LocalPartEmpty"
    ELSE IF len(part) > LOCAL_PART_MAX_LENGTH THEN "LocalPartTooLong"
    ELSE IF starts_with(part, DQUOTE) /\ ends_with(part, DQUOTE)
         THEN IF len(part) = 2 THEN "LocalPartEmpty"
              ELSE IF ~slice_in_range(part) THEN "Panic"
              ELSE parse_quoted_local_part(slice_inner(part))
         ELSE parse_unquoted_local_part(part)

parse_literal_domain(part) ==
    IF \A i \in 1..Len(part) : is_dtext_char(part[i]) THEN "Ok" ELSE "InvalidCharacter"

parse_text_domain(part) ==
    IF is_dot_atom_text(part)
    THEN LET subs == split(part, DOT)
         IN  IF \E k \in 1..Len(subs) : len(subs[k]) > SUB_DOMAIN_MAX_LENGTH
             THEN "SubDomainTooLong"
             ELSE "Ok"
    ELSE "InvalidCharacter"

parse_domain(part) ==
    IF is_empty(part) THEN "DomainEmpty"
    ELSE IF len(part) > DOMAIN_MAX_LENGTH THEN "DomainTooLong"
    ELSE IF starts_with(part, LBRACKET) /\ ends_with(part, RBRACKET)
         THEN parse_literal_domain(slice_inner(part))
         ELSE parse_text_domain(part)

(***************************************************************************)
(* The address splitter (lib.rs 482-505).                                  *)
(***************************************************************************)
NoString == <<>>

Failure(tag) == [tag |-> tag, local |-> NoString, domain |-> NoString]

\* strip_angle with "||" for "&&": a '<' or a '>' at one end is enough.
strip_angle_either(address) ==
    IF Len(address) >= 2 /\ (starts_with(address, LT) \/ ends_with(address, GT))
    THEN slice_inner(address)
    ELSE address

\* strip_angle repeated while a pair encloses the string.
RECURSIVE strip_angle_all(_)
strip_angle_all(address) ==
    IF starts_with(address, LT) /\ ends_with(address, GT)
    THEN strip_angle_all(slice_inner(address))
    ELSE address

\* Lines 483-487: one enclosing '<' '>' pair is removed.
strip_angle(address) ==
    IF starts_with(address, LT) /\ ends_with(address, GT)
    THEN slice_inner(address)
    ELSE address

\* split_and_parse with the quotes of a quoted local part dropped from the
\* value that is built.
split_and_parse_unquoted(address) ==
    LET parts == rsplitn2(address, AT)
    IN  IF Len(parts) # 2 THEN Failure("MissingSeparator")
        ELSE LET local == parts[Len(parts)]
                 domain == parts[1]
                 l == parse_local_part(local)
             IN  IF l # "Ok" THEN Failure(l)
                 ELSE LET d == parse_domain(domain)
                      IN  IF d # "Ok" THEN Failure(d)
                          ELSE [tag |-> "Ok",
                                local |-> IF starts_with(local, DQUOTE)
                                          THEN slice_inner(local) ELSE local,
                                domain |-> domain]

\* Lines 492-504: split, validate the local part, then the domain.
split_and_parse(address) ==
    LET parts == rsplitn2(address, AT)
    IN  IF Len(parts) # 2 THEN Failure("MissingSeparator")
        ELSE LET local == parts[Len(parts)]
                 domain == parts[1]
                 l == parse_local_part(local)
             IN  IF l # "Ok" THEN Failure(l)
                 ELSE LET d == parse_domain(domain)
                      IN  IF d # "Ok" THEN Failure(d)
                          ELSE [tag |-> "Ok", local |-> local, domain |-> domain]

parse_address(address) == split_and_parse(strip_angle(address))

(***************************************************************************)
(* The public interface (lib.rs 378-480).                                  *)
(***************************************************************************)
from_str(s) == parse_address(s)

\* to_string with the separator left out of the concatenation.
to_string_no_at(e) == e.local \o e.domain

to_string(e) == e.local \o <<AT>> \o e.domain

\* ! # $ % & ' ( ) * + , / : ; = ? @ [ ]
is_uri_reserved(c) ==
    c \in {33, 35, 36, 37, 38, 39, 40, 41, 42, 43, 44, 47, 58, 59, 61, 63,
           64, 91, 93}

\* hex_digit as {:02x} would print it: 0-9 then a-f.
hex_digit_lower(n) == IF n < 10 THEN 48 + n ELSE 87 + n

\* One digit of {:02X}: 0-9 then A-F.
hex_digit(n) == IF n < 10 THEN 48 + n ELSE 55 + n

\* format!("%{:02X}", c as u8)
percent_escape(c) ==
    LET b == c % 256 IN <<37, hex_digit(b \div 16), hex_digit(b % 16)>>

\* One step of the loop of encode: what the char c adds to the result.
encode_char(c) == IF is_uri_reserved(c) THEN percent_escape(c) ELSE <<c>>

\* The result of the loop of encode over the chars lo..hi of s, in order
\* (the range is halved to keep the evaluation shallow).
RECURSIVE encode_range(_, _, _)
encode_range(s, lo, hi) ==
    IF lo > hi THEN <<>>
    ELSE IF lo = hi THEN encode_char(s[lo])
    ELSE LET mid == (lo + hi) \div 2
         IN  encode_range(s, lo, mid) \o encode_range(s, mid + 1, hi)

encode(address) == encode_range(address, 1, Len(address))

to_uri(e) == MAILTO_URI_PREFIX \o encode(to_string(e))

\* format!("{} <{}>", display_name, self)
to_display(e, display_name) ==
    display_name \o <<SP, LT>> \o to_string(e) \o <<GT>>


(***************************************************************************)
(* The callers' inputs.  Every string of at most MaxLen chars over Sigma,  *)
(* and addresses put together from a local part, '@' and a domain, bare    *)
(* or wrapped in up to MaxWrap '<' '>' pairs.  The parts are short         *)
(* samples of every syntactic shape and runs of one char whose length is   *)
(* within Slack of a length limit, counted in chars or in bytes.           *)
(***************************************************************************)
MaxLen == 3
MaxWrap == 2
Slack == 1

\* a . @ " \ < > [ ] space e-acute !
Sigma == {97, 46, 64, 34, 92, 60, 62, 91, 93, 32, 233, 33}

ShortStrings == UNION {[1..k -> Sigma] : k \in 0..MaxLen}

Rep(c, n) == [i \in 1..n |-> c]

\* a (one byte) and e-acute (two bytes)
RunChars == {97, 233}

\* The run lengths within Slack of limit, or of half of it.
Near(limit) ==
    {n \in 1..(limit + Slack) :
        \E w \in {1, 2} :
            n + Slack >= limit \div w /\ n <= limit \div w + Slack}

Quoted(s) == <<DQUOTE>> \o s \o <<DQUOTE>>
Bracketed(s) == <<LBRACKET>> \o s \o <<RBRACKET>>

LocalSeeds ==
    { <<>>,                              \* empty
      <<97>>,                            \* a
      <<97, 46, 97>>,                    \* a.a
      <<97, 46, 46, 97>>,                \* a..a
      <<33, 47, 97>>,                    \* !/a
      <<233>>,                           \* e-acute
      <<97, 64, 97>>,                    \* a@a
      <<60, 97>>,                        \* <a
      <<DQUOTE>>,                        \* "
      Quoted(<<>>),                      \* ""
      Quoted(<<97, 64, 97>>),            \* "a@a"
      Quoted(<<32, 40, 58, 93>>),        \* " (:]"
      Quoted(<<ESC, DQUOTE>>),           \* "\""
      Quoted(<<ESC>>),                   \* "\"
      Quoted(<<ESC, 233>>),              \* "\e-acute"
      Quoted(<<97, DQUOTE, 97>>) }       \* "a"a"

LongLocals ==
    {Rep(c, n) : c \in RunChars, n \in Near(LOCAL_PART_MAX_LENGTH)}
    \cup {Quoted(Rep(c, n)) : c \in RunChars, n \in Near(LOCAL_PART_MAX_LENGTH - 2)}

Locals == LocalSeeds \cup LongLocals

\* A domain of t bytes: labels of c as long as a label may be, and a last
\* label of 'a'.
RECURSIVE Fill(_, _)
Fill(c, t) ==
    IF t <= SUB_DOMAIN_MAX_LENGTH THEN Rep(97, t)
    ELSE LET n == SUB_DOMAIN_MAX_LENGTH \div utf8_len(c)
         IN  Rep(c, n) \o <<DOT>> \o Fill(c, t - (n * utf8_len(c) + 1))

DomainSeeds ==
    { <<>>,                              \* empty
      <<97>>,                            \* a
      <<97, 46, 97>>,                    \* a.a
      <<97, 46>>,                        \* a.
      <<46, 97>>,                        \* .a
      <<97, 46, 46, 97>>,                \* a..a
      <<233, 46, 97>>,                   \* e-acute.a
      <<97, 64, 97>>,                    \* a@a
      <<97, 62>>,                        \* a>
      Bracketed(<<>>),                   \* []
      Bracketed(<<97, 58, 49, 46>>),     \* [a:1.]
      Bracketed(<<AT>>),                 \* [@]
      Bracketed(<<97, RBRACKET>>),       \* [a]]
      Bracketed(<<233>>),                \* [e-acute]
      Bracketed(<<97>>) \o <<97>> }      \* [a]a

LongDomains ==
    {Rep(c, n) : c \in RunChars, n \in Near(SUB_DOMAIN_MAX_LENGTH)}
    \cup {<<97, DOT>> \o Rep(c, n) : c \in RunChars, n \in Near(SUB_DOMAIN_MAX_LENGTH)}
    \cup {Fill(c, t) : c \in RunChars,
                       t \in (DOMAIN_MAX_LENGTH - Slack)..(DOMAIN_MAX_LENGTH + Slack)}
    \cup {Rep(97, t) : t \in (DOMAIN_MAX_LENGTH - Slack)..(DOMAIN_MAX_LENGTH + Slack)}
    \cup {Bracketed(Rep(97, n)) : n \in Near(SUB_DOMAIN_MAX_LENGTH)}
    \cup {Bracketed(Rep(97, t - 2)) :
              t \in (DOMAIN_MAX_LENGTH - Slack)..(DOMAIN_MAX_LENGTH + Slack)}

Domains == DomainSeeds \cup LongDomains

RECURSIVE Wrap(_, _)
Wrap(w, s) == IF w = 0 THEN s ELSE <<LT>> \o Wrap(w - 1, s) \o <<GT>>

Composed == {Wrap(w, l \o <<AT>> \o d) : w \in 0..MaxWrap, l \in Locals, d \in Domains}

\* Parts alone, for the validators of the parts: a misplaced dot before or
\* after a run near a length limit, and long domain literals.
EdgeParts ==
    {<<DOT>> \o Rep(c, n) : c \in RunChars, n \in Near(LOCAL_PART_MAX_LENGTH - 1)}
    \cup {Rep(c, n) \o <<DOT>> : c \in RunChars, n \in Near(DOMAIN_MAX_LENGTH - 1)}
    \cup {Bracketed(Rep(c, n)) : c \in RunChars, n \in Near(DOMAIN_MAX_LENGTH - 2)}

Inputs == ShortStrings \cup Locals \cup Domains \cup Composed \cup EdgeParts

\* "", "N", "N <"
DisplayNames == {<<>>, <<78>>, <<78, 32, 60>>}

(***************************************************************************)
(* The state: one caller's use of the crate.                               *)
(*   address  the string handed to the crate                               *)
(*   pc       the last call made ("start" before any)                      *)
(*   res      the Result of the parse the last call ran                    *)
(*   flag     the bool an is_valid* call returned ("none" when none did)   *)
(*   email    the EmailAddress the caller holds after a successful         *)
(*            from_str                                                     *)
(*   out      the String the last formatting call returned                 *)
(***************************************************************************)
VARIABLES address, pc, res, flag, email, out

vars == <<address, pc, res, flag, email, out>>

NoEmail == [local |-> NoString, domain |-> NoString]

is_ok(r) == r.tag = "Ok"

BoolOf(r) == IF r.tag = "Panic" THEN "none" ELSE IF is_ok(r) THEN "true" ELSE "false"

Init ==
    /\ address \in Inputs
    /\ pc = "start"
    /\ res = Failure("None")
    /\ flag = "none"
    /\ email = NoEmail
    /\ out = NoString

\* EmailAddress::from_str(address)
FromStr ==
    /\ pc = "start"
    /\ res' = from_str(address)
    /\ email' = IF is_ok(res') THEN [local |-> res'.local, domain |-> res'.domain]
                ELSE NoEmail
    /\ pc' = "from_str"
    /\ UNCHANGED <<address, flag, out>>

\* EmailAddress::is_valid(address)
IsValid ==
    /\ pc = "start"
    /\ res' = from_str(address)
    /\ flag' = BoolOf(res')
    /\ pc' = "is_valid"
    /\ UNCHANGED <<address, email, out>>

\* EmailAddress::is_valid_local_part(address)
IsValidLocalPart ==
    /\ pc = "start"
    /\ res' = Failure(parse_local_part(address))
    /\ flag' = BoolOf(res')
    /\ pc' = "is_valid_local_part"
    /\ UNCHANGED <<address, email, out>>

\* EmailAddress::is_valid_domain(address)
IsValidDomain ==
    /\ pc = "start"
    /\ res' = Failure(parse_domain(address))
    /\ flag' = BoolOf(res')
    /\ pc' = "is_valid_domain"
    /\ UNCHANGED <<address, email, out>>

\* email.to_string()
ToString ==
    /\ pc = "from_str"
    /\ is_ok(res)
    /\ out' = to_string(email)
    /\ pc' = "to_string"
    /\ UNCHANGED <<address, res, flag, email>>

\* email.to_uri()
ToUri ==
    /\ pc = "from_str"
    /\ is_ok(res)
    /\ out' = to_uri(email)
    /\ pc' = "to_uri"
    /\ UNCHANGED <<address, res, flag, email>>

\* email.to_display(display_name)
ToDisplay ==
    /\ pc = "from_str"
    /\ is_ok(res)
    /\ \E display_name \in DisplayNames : out' = to_display(email, display_name)
    /\ pc' = "to_display"
    /\ UNCHANGED <<address, res, flag, email>>

\* EmailAddress::from_str(&email.to_string()): the canonical string is
\* parsed again while the caller still holds the first value.
FromStrCanonical ==
    /\ pc = "to_string"
    /\ res' = from_str(out)
    /\ pc' = "reparsed"
    /\ UNCHANGED <<address, flag, email, out>>

Next ==
    \/ FromStr
    \/ IsValid
    \/ IsValidLocalPart
    \/ IsValidDomain
    \/ ToString
    \/ ToUri
    \/ ToDisplay
    \/ FromStrCanonical

Spec == Init /\ [][Next]_vars

TypeOK ==
    /\ pc \in {"start", "from_str", "is_valid", "is_valid_local_part",
               "is_valid_domain", "to_string", "to_uri", "to_display", "reparsed"}
    /\ flag \in {"none", "true", "false"}
    /\ res.tag \in {"None", "Ok", "Panic", "InvalidCharacter", "MissingSeparator",
                    "LocalPartEmpty", "LocalPartTooLong", "DomainEmpty",
                    "DomainTooLong", "SubDomainTooLong"}

(***************************************************************************)
(* Vocabulary of the properties, stated on sequences of chars without the  *)
(* crate's own splitting, stripping and encoding.                          *)
(***************************************************************************)
ErrorTags ==
    {"InvalidCharacter", "MissingSeparator", "LocalPartEmpty", "LocalPartTooLong",
     "DomainEmpty", "DomainTooLong", "SubDomainTooLong", "DomainTooFew",
     "DomainInvalidSeparator", "UnbalancedQuotes", "InvalidComment",
     "InvalidIPAddress", "CantHappen"}

Chars(s) == {s[i] : i \in 1..Len(s)}

HasAt(s) == 64 \in Chars(s)

\* s begins with '<' and ends with '>'
IsWrapped(s) == Len(s) >= 2 /\ s[1] = 60 /\ s[Len(s)] = 62

\* s begins and ends with '"'
IsQuoted(s) == Len(s) >= 1 /\ s[1] = 34 /\ s[Len(s)] = 34

\* s begins with '[' and ends with ']'
IsBracketed(s) == Len(s) >= 2 /\ s[1] = 91 /\ s[Len(s)] = 93

\* s without its first and last char
Inner(s) == [i \in 1..(Len(s) - 2) |-> s[i + 1]]

\* The input after one enclosing '<' '>' pair is removed.
Stripped(s) == IF IsWrapped(s) THEN Inner(s) ELSE s

\* The position of the rightmost '@' of s (s holds one).
LastAt(s) == CHOOSE i \in 1..Len(s) : s[i] = 64 /\ \A j \in (i + 1)..Len(s) : s[j] # 64

\* The text before and after position i of s.
Before(s, i) == [k \in 1..(i - 1) |-> s[k]]
After(s, i) == [k \in 1..(Len(s) - i) |-> s[i + k]]

Ok(l, d) == [tag |-> "Ok", local |-> l, domain |-> d]

(***************************************************************************)
(* C1.  Every call of from_str, is_valid, is_valid_local_part and          *)
(* is_valid_domain returns: from_str gives Ok or exactly one Error tag,    *)
(* the is_valid* calls give a bool, and no call aborts, also when the      *)
(* local part is the single char '"'.                                      *)
(* The code aborts on that local part (parse_local_part slices 1..0).      *)
(***************************************************************************)
C1_EveryCallReturns ==
    /\ pc \in {"from_str", "reparsed"} => res.tag \in {"Ok"} \cup ErrorTags
    /\ pc \in {"is_valid", "is_valid_local_part", "is_valid_domain"}
          => res.tag # "Panic" /\ flag \in {"true", "false"}

(***************************************************************************)
(* C2.  Round trip: when from_str(s) gave the value a, the canonical       *)
(* string a.local ++ "@" ++ a.domain parses again, to a value with the     *)
(* same local and the same domain; also for a wrapped s and a quoted       *)
(* local part holding '@'.                                                 *)
(***************************************************************************)
C2_RoundTrip ==
    /\ pc \in {"to_string", "reparsed"} => out = email.local \o <<64>> \o email.domain
    /\ pc = "reparsed" => res = Ok(email.local, email.domain)

\* A wrapped input with a quoted local part holding '@' made the round trip.
C2_Witness ==
    /\ pc = "reparsed"
    /\ IsWrapped(address)
    /\ IsQuoted(email.local)
    /\ HasAt(email.local)
    /\ is_ok(res)

(***************************************************************************)
(* C3.  is_valid_local_part and is_valid_domain tell what from_str will    *)
(* accept: whenever the input is l ++ "@" ++ d with l a valid local part   *)
(* and d a valid domain, from_str gives Ok(l, d); and when l is a valid    *)
(* local part and l ++ "@" ++ d is valid, d is a valid domain.             *)
(* The code accepts the domain literal [@] alone, and splits a@[@] at its  *)
(* last '@'.                                                               *)
(***************************************************************************)
C3_PartsDecideAddress ==
    pc = "from_str" =>
        \A i \in 1..Len(address) :
            address[i] = 64 =>
                LET l == Before(address, i)
                    d == After(address, i)
                IN  /\ (parse_local_part(l) = "Ok" /\ parse_domain(d) = "Ok")
                           => res = Ok(l, d)
                    /\ (parse_local_part(l) = "Ok" /\ is_ok(res))
                           => parse_domain(d) = "Ok"

(***************************************************************************)
(* C4.  The local-part limit counts Unicode scalar values: a non-empty     *)
(* local part fails with LocalPartTooLong if and only if it has more       *)
(* than 64 chars, whatever their width in UTF-8.                           *)
(* The code compares str::len, the number of bytes.                        *)
(***************************************************************************)
C4_LocalLimitInChars ==
    (pc = "is_valid_local_part" /\ Len(address) > 0)
        => (res.tag = "LocalPartTooLong" <=> Len(address) > 64)

\* The labels of a dot-atom are non-empty, of atext, between single dots.
DotAtomText(s) ==
    /\ Len(s) > 0
    /\ s[1] # 46
    /\ s[Len(s)] # 46
    /\ \A i \in 1..(Len(s) - 1) : ~(s[i] = 46 /\ s[i + 1] = 46)
    /\ \A i \in 1..Len(s) : s[i] = 46 \/ is_atext(s[i])

\* Some run of n chars of s holds no dot: a label of at least n chars.
HasLabelOfLength(s, n) ==
    \E i \in 1..(Len(s) - n + 1) : \A k \in i..(i + n - 1) : s[k] # 46

\* The decision of C5, with every length counted in chars.
DomainDecisionInChars(d) ==
    IF Len(d) = 0 THEN "DomainEmpty"
    ELSE IF Len(d) > 254 THEN "DomainTooLong"
    ELSE IF ~DotAtomText(d) THEN "InvalidCharacter"
    ELSE IF HasLabelOfLength(d, 64) THEN "SubDomainTooLong"
    ELSE "Ok"

(***************************************************************************)
(* C5.  A domain that is not bracketed is decided in this order:           *)
(* DomainEmpty when empty, DomainTooLong above 254, InvalidCharacter when  *)
(* not dot-atom-text, SubDomainTooLong when a label exceeds 63, else Ok;   *)
(* the lengths are counted in chars, also for non-ASCII labels.            *)
(* The code compares str::len, the number of bytes.                        *)
(***************************************************************************)
C5_DomainDecisionInChars ==
    (pc = "is_valid_domain" /\ ~IsBracketed(address))
        => res.tag = DomainDecisionInChars(address)

\* The local and domain candidates of an input that holds '@'.
LocalCandidate(s) == Before(Stripped(s), LastAt(Stripped(s)))
DomainCandidate(s) == After(Stripped(s), LastAt(Stripped(s)))

\* What C6 says of every input that holds '@', but for an '@' in an
\* unquoted local part: a value is made of the text before and after the
\* rightmost '@', the outcome is the one the two validators give on those
\* candidates, and a quoted local part may hold '@'.
SplitAtLastAt ==
    LET l == LocalCandidate(address)
        d == DomainCandidate(address)
    IN  /\ ~HasAt(d)
        /\ is_ok(res) => res = Ok(l, d)
        /\ res.tag = (IF parse_local_part(l) # "Ok" THEN parse_local_part(l)
                      ELSE parse_domain(d))
        /\ (/\ IsQuoted(l)
            /\ HasAt(l)
            /\ len(l) <= 64
            /\ is_qcontent(Inner(l))
            /\ parse_domain(d) = "Ok") => res = Ok(l, d)

(***************************************************************************)
(* C6 as stated.  The address is split at the LAST '@': the domain         *)
(* candidate is the text after it and the local candidate all before it;   *)
(* an '@' in a quoted local part is accepted, and an '@' in an unquoted    *)
(* local part makes from_str fail with InvalidCharacter.                   *)
(* The last part fails for a local part above the length limit.            *)
(***************************************************************************)
C6_SplitAtLastAt_AsStated ==
    (pc = "from_str" /\ HasAt(address)) =>
        /\ SplitAtLastAt
        /\ (HasAt(LocalCandidate(address)) /\ ~IsQuoted(LocalCandidate(address)))
               => res.tag = "InvalidCharacter"

(***************************************************************************)
(* C6 as amended.  The address is split at the LAST '@' as above, an '@'   *)
(* in a quoted local part is accepted, and an '@' in an unquoted local     *)
(* part makes from_str fail: with LocalPartTooLong when the local          *)
(* candidate is longer than 64 bytes, else with InvalidCharacter.          *)
(***************************************************************************)
C6_SplitAtLastAt ==
    (pc = "from_str" /\ HasAt(address)) =>
        /\ SplitAtLastAt
        /\ (HasAt(LocalCandidate(address)) /\ ~IsQuoted(LocalCandidate(address)))
               => res.tag = (IF len(LocalCandidate(address)) > 64
                             THEN "LocalPartTooLong"
                             ELSE "InvalidCharacter")

\* A quoted local part holding '@' was accepted whole.
C6_Witness ==
    /\ pc = "from_str"
    /\ is_ok(res)
    /\ IsQuoted(res.local)
    /\ HasAt(res.local)
    /\ res.local = LocalCandidate(address)

(***************************************************************************)
(* C7.  from_str fails with MissingSeparator if and only if the input,     *)
(* after one enclosing '<' '>' pair is removed, holds no '@'.              *)
(***************************************************************************)
C7_MissingSeparator ==
    pc = "from_str" => (res.tag = "MissingSeparator" <=> ~HasAt(Stripped(address)))

\* A wrapped, non-empty input without '@' was refused.
C7_Witness ==
    /\ pc = "from_str"
    /\ res.tag = "MissingSeparator"
    /\ IsWrapped(address)
    /\ Len(address) > 2

(***************************************************************************)
(* C8.  First failure wins, the local part first: on an input that holds   *)
(* '@', from_str returns the local-part validator's error when the left    *)
(* piece is not valid, the domain validator's error when only the right    *)
(* piece is not valid, and Ok only when both are valid; the outcome is Ok  *)
(* or exactly one Error tag, and no value exists on failure.               *)
(* No tag is returned when the left piece is the single char '"' (C1).     *)
(***************************************************************************)
C8_FirstFailureWins ==
    (pc = "from_str" /\ HasAt(address)) =>
        LET l == parse_local_part(LocalCandidate(address))
            d == parse_domain(DomainCandidate(address))
        IN  /\ res.tag \in {"Ok"} \cup ErrorTags
            /\ l # "Ok" => res.tag = l
            /\ (l = "Ok" /\ d # "Ok") => res.tag = d
            /\ is_ok(res) <=> (l = "Ok" /\ d = "Ok")
            /\ ~is_ok(res) => (email = NoEmail /\ res = Failure(res.tag))

\* ! # $ % & ' ( ) * + , / : ; = ? @ [ ]
Reserved == {33, 35, 36, 37, 38, 39, 40, 41, 42, 43, 44, 47, 58, 59, 61, 63, 64, 91, 93}

\* The sixteen uppercase hex digits.
UpperHex == <<48, 49, 50, 51, 52, 53, 54, 55, 56, 57, 65, 66, 67, 68, 69, 70>>

\* The number of chars the first i - 1 chars of s take once escaped.
EscapedLength(s, i) == (i - 1) + 2 * Cardinality({j \in 1..(i - 1) : s[j] \in Reserved})

\* u is "mailto:" and then, char by char, s with every reserved char
\* replaced by '%' and its two uppercase hex digits.
IsMailtoOf(u, s) ==
    /\ Len(u) = 7 + EscapedLength(s, Len(s) + 1)
    /\ SubSeq(u, 1, 7) = <<109, 97, 105, 108, 116, 111, 58>>
    /\ \A i \in 1..Len(s) :
           LET at == 7 + EscapedLength(s, i)
           IN  IF s[i] \in Reserved
               THEN /\ u[at + 1] = 37
                    /\ u[at + 2] = UpperHex[(s[i] \div 16) + 1]
                    /\ u[at + 3] = UpperHex[(s[i] % 16) + 1]
               ELSE u[at + 1] = s[i]

(***************************************************************************)
(* C9.  For a valid address, to_uri is "mailto:" and then the canonical    *)
(* string with each of ! # $ % & ' ( ) * + , / : ; = ? @ [ ] replaced by   *)
(* '%' and the two uppercase hex digits of its code, every other char      *)
(* copied; so it starts with "mailto:" and holds no '@', '[' or ']' after  *)
(* the prefix.                                                             *)
(***************************************************************************)
C9_ToUri ==
    pc = "to_uri" =>
        /\ IsMailtoOf(out, email.local \o <<64>> \o email.domain)
        /\ \A i \in 8..Len(out) : out[i] \notin {64, 91, 93}

\* A value with a reserved char in the local part and a domain literal
\* was formatted as a URI.
C9_Witness ==
    /\ pc = "to_uri"
    /\ Chars(email.local) \cap Reserved # {}
    /\ IsBracketed(email.domain)
    /\ Chars(email.domain) \cap {47, 58, 59, 61, 63} # {}

(***************************************************************************)
(* C10.  Exactly one '<' '>' pair is removed, once: from_str of            *)
(* "<" ++ s ++ ">" is the outcome of splitting and validating s as it      *)
(* is.  So for a valid s that is not itself wrapped, "<" ++ s ++ ">" is    *)
(* valid with the value of s, and "<<" ++ s ++ ">>" is not valid.          *)
(***************************************************************************)
C10_StripOnce ==
    (pc = "from_str" /\ IsWrapped(address)) =>
        LET s == Inner(address)
        IN  /\ res = split_and_parse(s)
            /\ (~IsWrapped(s) /\ is_ok(from_str(s))) => res = from_str(s)
            /\ (/\ IsWrapped(s)
                /\ ~IsWrapped(Inner(s))
                /\ is_ok(from_str(Inner(s)))) => ~is_ok(res)

\* A valid address wrapped twice was refused.
C10_Witness ==
    /\ pc = "from_str"
    /\ IsWrapped(address)
    /\ IsWrapped(Inner(address))
    /\ ~IsWrapped(Inner(Inner(address)))
    /\ is_ok(from_str(Inner(Inner(address))))
    /\ ~is_ok(res)

\* name, " <", the canonical string of the value e, ">"
DisplayOf(name, e) == name \o <<32, 60>> \o e.local \o <<64>> \o e.domain \o <<62>>

(***************************************************************************)
(* C11.  The value holds the two exact substrings around the rightmost     *)
(* '@', quotes and brackets kept: for a valid input that is not wrapped    *)
(* in '<' '>', the canonical string equals the input char for char; and    *)
(* to_display(a, name) is name, " <", the canonical string, ">".           *)
(***************************************************************************)
C11_ExactSubstrings ==
    /\ (pc = "from_str" /\ is_ok(res))
           => res = Ok(LocalCandidate(address), DomainCandidate(address))
    /\ (pc = "to_string" /\ ~IsWrapped(address)) => out = address
    /\ pc = "to_display"
           => /\ out \in {DisplayOf(name, email) : name \in DisplayNames}
              /\ \A name \in DisplayNames :
                     to_display(email, name) = DisplayOf(name, email)

\* A bare input with a quoted local part and a domain literal was parsed
\* and printed back.
C11_Witness ==
    /\ pc = "to_string"
    /\ ~IsWrapped(address)
    /\ IsQuoted(email.local)
    /\ Len(email.local) > 2
    /\ IsBracketed(email.domain)
    /\ out = address

\* The tags that no validator is said to produce.
ReservedTags ==
    {"DomainTooFew", "DomainInvalidSeparator", "UnbalancedQuotes", "InvalidComment",
     "InvalidIPAddress", "CantHappen"}

\* The tags the validators are said to produce.
ProducedTags ==
    {"InvalidCharacter", "MissingSeparator", "LocalPartEmpty", "LocalPartTooLong",
     "DomainEmpty", "DomainTooLong", "SubDomainTooLong"}

(***************************************************************************)
(* C12.  The reserved tags are unreachable: from_str never returns         *)
(* DomainTooFew, DomainInvalidSeparator, UnbalancedQuotes, InvalidComment, *)
(* InvalidIPAddress or CantHappen, and every failure is one of             *)
(* InvalidCharacter, MissingSeparator, LocalPartEmpty, LocalPartTooLong,   *)
(* DomainEmpty, DomainTooLong, SubDomainTooLong.                           *)
(* The failure on the local part '"' is an abort that carries no tag (C1). *)
(***************************************************************************)
C12_OnlyProducedTags ==
    pc \in {"from_str", "is_valid", "reparsed"} =>
        /\ res.tag \notin ReservedTags
        /\ ~is_ok(res) => res.tag \in ProducedTags

\* Space, tab, or qtext: 0x21, 0x23-0x5B, 0x5D-0x7E, or U+0080 and above.
QTextOrWsp(c) ==
    \/ c = 32
    \/ c = 9
    \/ c = 33
    \/ (c >= 35 /\ c <= 91)
    \/ (c >= 93 /\ c <= 126)
    \/ c >= 128

\* The qcontent scan of C13 from position i of s on: a backslash and the
\* VCHAR after it are consumed together, any other char is wsp or qtext.
RECURSIVE QContentScan(_, _)
QContentScan(s, i) ==
    IF i > Len(s) THEN TRUE
    ELSE IF s[i] = 92
         THEN i < Len(s) /\ s[i + 1] >= 33 /\ s[i + 1] <= 126 /\ QContentScan(s, i + 2)
         ELSE QTextOrWsp(s[i]) /\ QContentScan(s, i + 1)

(***************************************************************************)
(* C13.  A local part of length 2 to 64 that begins and ends with '"'      *)
(* gives LocalPartEmpty when it is the two quotes alone, and otherwise     *)
(* is valid if and only if its interior passes the qcontent scan, any      *)
(* violation giving InvalidCharacter.                                      *)
(* The code refuses a quoted local part of at most 64 chars that is        *)
(* longer than 64 bytes with LocalPartTooLong (C4).                        *)
(***************************************************************************)
C13_QuotedLocalPart ==
    (/\ pc = "is_valid_local_part"
     /\ IsQuoted(address)
     /\ Len(address) >= 2
     /\ Len(address) <= 64)
        => res.tag = (IF Len(address) = 2 THEN "LocalPartEmpty"
                      ELSE IF QContentScan(Inner(address), 1) THEN "Ok"
                      ELSE "InvalidCharacter")

\* A leading, a trailing or a doubled dot.
MisplacedDot(s) ==
    /\ Len(s) > 0
    /\ \/ s[1] = 46
       \/ s[Len(s)] = 46
       \/ \E i \in 1..(Len(s) - 1) : s[i] = 46 /\ s[i + 1] = 46

(***************************************************************************)
(* C14.  is_dot_atom_text(s) is true if and only if s is non-empty, has    *)
(* no leading, trailing or doubled dot, and every other char is atext.     *)
(* An unquoted local part or a non-bracketed domain within the length      *)
(* limits that has a leading, trailing or doubled dot is reported as       *)
(* InvalidCharacter.                                                       *)
(* The code reports LocalPartTooLong / DomainTooLong for such a part that  *)
(* is within the limit in chars and above it in bytes (C4, C5).            *)
(***************************************************************************)
C14_DotPlacement ==
    /\ is_dot_atom_text(address) <=> DotAtomText(address)
    /\ (/\ pc = "is_valid_local_part"
        /\ ~IsQuoted(address)
        /\ Len(address) <= 64
        /\ MisplacedDot(address)) => res.tag = "InvalidCharacter"
    /\ (/\ pc = "is_valid_domain"
        /\ ~IsBracketed(address)
        /\ Len(address) <= 254
        /\ MisplacedDot(address)) => res.tag = "InvalidCharacter"

\* dtext: 0x21-0x5A or 0x5E-0x7E.
DText(c) == (c >= 33 /\ c <= 90) \/ (c >= 94 /\ c <= 126)

(***************************************************************************)
(* C15.  A non-empty domain of length at most 254 that begins with '['     *)
(* and ends with ']' is valid if and only if every interior char is        *)
(* dtext, and otherwise fails with InvalidCharacter; no shape of an IP     *)
(* address and no label length is checked, and "[]" is accepted.           *)
(* The code reports DomainTooLong for a literal of at most 254 chars that  *)
(* is longer than 254 bytes (C5).                                          *)
(***************************************************************************)
C15_DomainLiteral ==
    (/\ pc = "is_valid_domain"
     /\ IsBracketed(address)
     /\ Len(address) <= 254)
        => res.tag = (IF \A i \in 2..(Len(address) - 1) : DText(address[i])
                      THEN "Ok"
                      ELSE "InvalidCharacter")

=============================================================================
